---- MODULE Spec2Model ----
(***************************************************************************)
(* visualize_board.py: cube coordinates, hexagon geometry and the          *)
(* rendering pass of visualize_map / main.                                 *)
(*                                                                         *)
(* Python floats (and numpy float64 scalars) are IEEE-754 binary64 values. *)
(* They are modelled bit-exactly: a float is a sign, a 53-bit significand  *)
(* and an exponent, and every arithmetic operation is the exact result     *)
(* rounded to nearest, ties to even.  Significands do not fit TLC's        *)
(* integers, so they are kept as little-endian sequences of limbs.         *)
(* Exponents stay far from the subnormal and overflow ranges for every     *)
(* value the program computes, so those ranges are not modelled.           *)
(***************************************************************************)
EXTENDS Integers, Sequences, FiniteSets, TLC

(***************************************************************************)
(* Natural numbers of any size: little-endian limbs, no high zero limb.    *)
(***************************************************************************)
Base == 2 ^ 15

RECURSIVE NNorm(_)
NNorm(a) ==
    IF a = <<>> THEN <<>>
    ELSE IF a[Len(a)] = 0 THEN NNorm(SubSeq(a, 1, Len(a) - 1))
    ELSE a

RECURSIVE NFromInt(_)
NFromInt(n) == IF n = 0 THEN <<>> ELSE <<n % Base>> \o NFromInt(n \div Base)

RECURSIVE NAddC(_, _, _)
NAddC(a, b, c) ==
    IF a = <<>> /\ b = <<>> THEN (IF c = 0 THEN <<>> ELSE <<c>>)
    ELSE LET x == IF a = <<>> THEN 0 ELSE a[1]
             y == IF b = <<>> THEN 0 ELSE b[1]
             t == x + y + c
         IN  <<t % Base>> \o NAddC(IF a = <<>> THEN <<>> ELSE Tail(a),
                                   IF b = <<>> THEN <<>> ELSE Tail(b),
                                   t \div Base)

NAdd(a, b) == NAddC(a, b, 0)

\* a - b for a >= b; the borrow c is 0 or 1
RECURSIVE NSubC(_, _, _)
NSubC(a, b, c) ==
    IF a = <<>> THEN <<>>
    ELSE LET y == IF b = <<>> THEN 0 ELSE b[1]
             t == a[1] - y - c
         IN  <<t % Base>> \o NSubC(Tail(a),
                                   IF b = <<>> THEN <<>> ELSE Tail(b),
                                   IF t < 0 THEN 1 ELSE 0)

NSub(a, b) == NNorm(NSubC(a, b, 0))

\* -1, 0, 1 as a < b, a = b, a > b
RECURSIVE NCmp(_, _)
NCmp(a, b) ==
    IF Len(a) # Len(b) THEN (IF Len(a) < Len(b) THEN -1 ELSE 1)
    ELSE IF a = <<>> THEN 0
    ELSE IF a[Len(a)] # b[Len(b)] THEN (IF a[Len(a)] < b[Len(b)] THEN -1 ELSE 1)
    ELSE NCmp(SubSeq(a, 1, Len(a) - 1), SubSeq(b, 1, Len(b) - 1))

\* a * k + c for a limb-sized k
RECURSIVE NMulSmallC(_, _, _)
NMulSmallC(a, k, c) ==
    IF a = <<>> THEN (IF c = 0 THEN <<>> ELSE <<c>>)
    ELSE LET t == a[1] * k + c
         IN  <<t % Base>> \o NMulSmallC(Tail(a), k, t \div Base)

NMulSmall(a, k) == IF k = 0 THEN <<>> ELSE NMulSmallC(a, k, 0)

NShiftLimb(a) == IF a = <<>> THEN <<>> ELSE <<0>> \o a

RECURSIVE NMul(_, _)
NMul(a, b) ==
    IF a = <<>> \/ b = <<>> THEN <<>>
    ELSE NAdd(NMulSmall(b, a[1]), NShiftLimb(NMul(Tail(a), b)))

\* quotient and remainder of a by a limb-sized k > 0
RECURSIVE NDivSmallR(_, _)
NDivSmallR(a, k) ==
    IF a = <<>> THEN [q |-> <<>>, r |-> 0]
    ELSE LET hi  == NDivSmallR(Tail(a), k)
             cur == hi.r * Base + a[1]
         IN  [q |-> <<cur \div k>> \o hi.q, r |-> cur % k]

NDivSmall(a, k) ==
    LET d == NDivSmallR(a, k) IN [q |-> NNorm(d.q), r |-> d.r]

RECURSIVE BitLenSmall(_)
BitLenSmall(n) == IF n = 0 THEN 0 ELSE 1 + BitLenSmall(n \div 2)

LimbBits == BitLenSmall(Base) - 1

NBitLen(a) ==
    IF a = <<>> THEN 0 ELSE LimbBits * (Len(a) - 1) + BitLenSmall(a[Len(a)])

RECURSIVE NShiftLimbs(_, _)
NShiftLimbs(a, n) == IF n = 0 THEN a ELSE NShiftLimbs(NShiftLimb(a), n - 1)

\* a * 2^n
NShl(a, n) == NShiftLimbs(NMulSmall(a, 2 ^ (n % LimbBits)), n \div LimbBits)

\* a \div 2^n
NShr(a, n) ==
    LET drop == n \div LimbBits
    IN  IF drop >= Len(a) THEN <<>>
        ELSE NDivSmall(SubSeq(a, drop + 1, Len(a)), 2 ^ (n % LimbBits)).q

NBit(a, i) ==
    LET k == i \div LimbBits + 1
    IN  IF k > Len(a) THEN 0 ELSE (a[k] \div (2 ^ (i % LimbBits))) % 2

(***************************************************************************)
(* Dyadic numbers s * m * 2^e (s in {-1, 0, 1}, m a natural) and exact     *)
(* arithmetic on them.                                                     *)
(***************************************************************************)
DZero == [s |-> 0, m |-> <<>>, e |-> 0]

D(s, m, e) == IF m = <<>> \/ s = 0 THEN DZero ELSE [s |-> s, m |-> m, e |-> e]

DNeg(a) == D(-a.s, a.m, a.e)

DMul(a, b) == D(a.s * b.s, NMul(a.m, b.m), a.e + b.e)

DAdd(a, b) ==
    IF a.s = 0 THEN b
    ELSE IF b.s = 0 THEN a
    ELSE LET e  == IF a.e < b.e THEN a.e ELSE b.e
             ma == NShl(a.m, a.e - e)
             mb == NShl(b.m, b.e - e)
             c  == NCmp(ma, mb)
         IN  IF a.s = b.s THEN D(a.s, NAdd(ma, mb), e)
             ELSE IF c = 0 THEN DZero
             ELSE IF c > 0 THEN D(a.s, NSub(ma, mb), e)
             ELSE D(b.s, NSub(mb, ma), e)

DSub(a, b) == DAdd(a, DNeg(b))

DAbs(a) == D(a.s * a.s, a.m, a.e)

\* the sign of a - b: equality and order of the values, whatever their form
DCmp(a, b) == DSub(a, b).s

DFromInt(n) == IF n < 0 THEN D(-1, NFromInt(-n), 0) ELSE D(1, NFromInt(n), 0)

(***************************************************************************)
(* binary64: the significand m has exactly Precision bits.  FRound rounds  *)
(* a dyadic number (plus, when sticky, a positive amount below one unit of *)
(* its last bit) to the nearest float, ties to even.                       *)
(***************************************************************************)
Precision == 53

FRound(d, sticky) ==
    IF d.s = 0 THEN DZero
    ELSE LET len == NBitLen(d.m)
         IN  IF len <= Precision
             THEN [s |-> d.s, m |-> NShl(d.m, Precision - len),
                   e |-> d.e - (Precision - len)]
             ELSE LET sh    == len - Precision
                      q     == NShr(d.m, sh)
                      guard == NBit(d.m, sh - 1)
                      rest  == sticky \/ NShl(NShr(d.m, sh - 1), sh - 1) # d.m
                      up    == guard = 1 /\ (rest \/ NBit(q, 0) = 1)
                      q1    == IF up THEN NAdd(q, <<1>>) ELSE q
                  IN  IF NBitLen(q1) > Precision
                      THEN [s |-> d.s, m |-> NShr(q1, 1), e |-> d.e + sh + 1]
                      ELSE [s |-> d.s, m |-> q1, e |-> d.e + sh]

FFromInt(n) == FRound(DFromInt(n), FALSE)

FMul(a, b) == FRound(DMul(a, b), FALSE)

FAdd(a, b) == FRound(DAdd(a, b), FALSE)

FNeg(a) == DNeg(a)

\* a / n for an int n > 0 below Base (Python converts n to float exactly)
FDivInt(a, n) ==
    IF a.s = 0 THEN DZero
    ELSE LET d == NDivSmall(NShl(a.m, 4 * LimbBits), n)
         IN  FRound(D(a.s, d.q, a.e - 4 * LimbBits), d.r # 0)

(***************************************************************************)
(* The real numbers (p + q * sqrt(3)) / d, d > 0, in lowest terms: the     *)
(* values the same expressions take in exact arithmetic.                   *)
(***************************************************************************)
Abs(n) == IF n < 0 THEN -n ELSE n

RECURSIVE Gcd(_, _)
Gcd(a, b) == IF b = 0 THEN a ELSE Gcd(b, a % b)

R(p, q, d) ==
    LET g == Gcd(Gcd(Abs(p), Abs(q)), d)
    IN  [p |-> p \div g, q |-> q \div g, d |-> d \div g]

RFromInt(n) == R(n, 0, 1)

RAdd(a, b) == R(a.p * b.d + b.p * a.d, a.q * b.d + b.q * a.d, a.d * b.d)

RMul(a, b) == R(a.p * b.p + 3 * a.q * b.q, a.p * b.q + a.q * b.p, a.d * b.d)

RNeg(a) == R(-a.p, -a.q, a.d)

RDivInt(a, n) == R(a.p, a.q, a.d * n)

(***************************************************************************)
(* The arithmetic an expression of the source is evaluated in: Binary64,   *)
(* what the program computes, or Exact, the same expression over the reals.*)
(***************************************************************************)
Binary64 == "binary64"
Exact == "exact"

Mul(A, a, b) == IF A = Binary64 THEN FMul(a, b) ELSE RMul(a, b)

Add(A, a, b) == IF A = Binary64 THEN FAdd(a, b) ELSE RAdd(a, b)

DivInt(A, a, n) == IF A = Binary64 THEN FDivInt(a, n) ELSE RDivInt(a, n)

FromInt(A, n) == IF A = Binary64 THEN FFromInt(n) ELSE RFromInt(n)

\* a decimal literal num/den of the source (0.5, 0.6): the nearest float, or num/den
Literal(A, lit) == DivInt(A, FromInt(A, lit[1]), lit[2])

(***************************************************************************)
(* CubeCoord, TileTemplate, NodeRef                                        *)
(***************************************************************************)
LAND == "Land"
WATER == "Water"
PORT == "Port"

North == "North"
NorthEast == "NorthEast"
SouthEast == "SouthEast"
South == "South"
SouthWest == "SouthWest"
NorthWest == "NorthWest"

\* CubeCoord.__post_init__: the assertion on the three fields
CubeCoordAssert_dropsZ(x, y, z) == x + y = 0

CubeCoordAssert(x, y, z) == x + y + z = 0

\* CubeCoord(x, y, z): the value constructed, or the AssertionError raised
CubeCoord(x, y, z) ==
    IF CubeCoordAssert(x, y, z)
    THEN [ok |-> TRUE, value |-> [x |-> x, y |-> y, z |-> z]]
    ELSE [ok |-> FALSE, raised |-> "AssertionError"]

(***************************************************************************)
(* np.sqrt(3), np.cos, np.sin.  An angle is kept as its multiple of pi/6;  *)
(* np_cos and np_sin give the correctly rounded binary64 cosine and sine   *)
(* of the binary64 angle the source writes (-np.pi / 2, 5 * np.pi / 6,     *)
(* ...); in exact arithmetic they are the exact values at the exact angle.  *)
(***************************************************************************)
F_sqrt3 == [s |-> 1, m |-> <<19626, 20656, 23019, 221>>, e |-> -52]    \* 1.7320508075688772
F_one == [s |-> 1, m |-> <<0, 0, 0, 128>>, e |-> -52]                  \* 1.0
F_cos_pi_2 == [s |-> 1, m |-> <<23559, 26152, 6296, 141>>, e |-> -106] \* 6.123233995736766e-17
F_cos_pi_6 == [s |-> 1, m |-> <<19627, 20656, 23019, 221>>, e |-> -53] \* 0.8660254037844387
F_sin_pi_6 == [s |-> 1, m |-> <<32767, 32767, 32767, 255>>, e |-> -54] \* 0.49999999999999994

np_sqrt3(A) == IF A = Binary64 THEN F_sqrt3 ELSE R(0, 1, 1)

np_cos(A, k) ==
    IF A = Binary64
    THEN CASE k \in {-3, 3} -> F_cos_pi_2
           [] k \in {-1, 1} -> F_cos_pi_6
           [] k \in {-5, 5} -> FNeg(F_cos_pi_6)
    ELSE CASE k % 12 \in {3, 9}  -> R(0, 0, 1)
           [] k % 12 \in {1, 11} -> R(0, 1, 2)
           [] k % 12 \in {5, 7}  -> R(0, -1, 2)

np_sin(A, k) ==
    IF A = Binary64
    THEN CASE k = -3 -> FNeg(F_one)
           [] k = 3  -> F_one
           [] k \in {1, 5}   -> F_sin_pi_6
           [] k \in {-1, -5} -> FNeg(F_sin_pi_6)
    ELSE CASE k % 12 = 9 -> R(-1, 0, 1)
           [] k % 12 = 3 -> R(1, 0, 1)
           [] k % 12 \in {1, 5}  -> R(1, 0, 2)
           [] k % 12 \in {7, 11} -> R(-1, 0, 2)

(***************************************************************************)
(* cube_to_pixel                                                           *)
(***************************************************************************)
cube_to_pixel_usesY(A, cube, size) ==
    <<Mul(A, size, Add(A, Mul(A, np_sqrt3(A), FromInt(A, cube.x)),
                          Mul(A, DivInt(A, np_sqrt3(A), 2), FromInt(A, cube.y)))),
      Mul(A, size, Mul(A, DivInt(A, FromInt(A, 3), 2), FromInt(A, cube.y)))>>

cube_to_pixel(A, cube, size) ==
    <<Mul(A, size, Add(A, Mul(A, np_sqrt3(A), FromInt(A, cube.x)),
                          Mul(A, DivInt(A, np_sqrt3(A), 2), FromInt(A, cube.z)))),
      Mul(A, size, Mul(A, DivInt(A, FromInt(A, 3), 2), FromInt(A, cube.z)))>>

(***************************************************************************)
(* hexagon_corners, get_node_position                                      *)
(***************************************************************************)
node_order == <<North, NorthEast, SouthEast, South, SouthWest, NorthWest>>

\* the same angles taken counter-clockwise from North
node_angles_counterClockwise ==
    [n \in {North, NorthEast, SouthEast, South, SouthWest, NorthWest} |->
        CASE n = North     -> -3
          [] n = NorthEast -> -5
          [] n = SouthEast -> 5
          [] n = South     -> 3
          [] n = SouthWest -> 1
          [] n = NorthWest -> -1]

\* node_angles, in units of pi/6
node_angles ==
    [n \in {North, NorthEast, SouthEast, South, SouthWest, NorthWest} |->
        CASE n = North     -> -3
          [] n = NorthEast -> -1
          [] n = SouthEast -> 1
          [] n = South     -> 3
          [] n = SouthWest -> 5
          [] n = NorthWest -> -5]

\* the same with cos and sin exchanged
hexagon_corners_swapsCosSin(A, center_x, center_y, size) ==
    [k \in 1..Len(node_order) |->
        LET angle == node_angles[node_order[k]]
        IN  <<Add(A, center_x, Mul(A, size, np_sin(A, angle))),
              Add(A, center_y, Mul(A, size, np_cos(A, angle)))>>]

hexagon_corners(A, center_x, center_y, size) ==
    [k \in 1..Len(node_order) |->
        LET angle == node_angles[node_order[k]]
        IN  <<Add(A, center_x, Mul(A, size, np_cos(A, angle))),
              Add(A, center_y, Mul(A, size, np_sin(A, angle)))>>]

\* get_node_position's own node_order list, and its
\* node_map = {ref: idx for idx, ref in enumerate(node_order)} (1-based here)
gnp_node_order == <<North, NorthEast, SouthEast, South, SouthWest, NorthWest>>

node_map_shifted(node_ref) ==
    CHOOSE i \in 1..Len(gnp_node_order) :
        gnp_node_order[(i % Len(gnp_node_order)) + 1] = node_ref

node_map(node_ref) ==
    CHOOSE i \in 1..Len(gnp_node_order) : gnp_node_order[i] = node_ref

get_node_position(A, center_x, center_y, size, node_ref) ==
    hexagon_corners(A, center_x, center_y, size)[node_map(node_ref)]

(***************************************************************************)
(* State.                                                                  *)
(*   arg, cube, pixel, corners, nodepos: one application of the geometry   *)
(*     functions to inputs drawn at the start (SpecGeom).                  *)
(*   calls .. savefig_log: main and the visualize_map call in progress.    *)
(*     calls       the arguments of the visualize_map calls main makes     *)
(*     callno      the call in progress (or the last one made)             *)
(*     pc          "main", a loop of visualize_map, "done" or "raised"     *)
(*     idx         position of the loop in progress                        *)
(*     hexagons    the polygons added to the axes by draw_hexagon          *)
(*     node_id_to_positions, node_positions: the two dicts, as sequences   *)
(*                 of entries in insertion order                           *)
(*     labels      the node labels (circle and text) added to the axes     *)
(*     savefig_log the calls of plt.savefig, each with the figure written  *)
(*     error       the exception that left main, or "None"                 *)
(***************************************************************************)
VARIABLES arg, cube, pixel, corners, nodepos,
          calls, callno, pc, idx, hexagons, node_id_to_positions,
          node_positions, labels, savefig_log, error

geomVars == <<arg, cube, pixel, corners, nodepos>>
figVars == <<hexagons, node_id_to_positions, node_positions, labels>>
mainVars == <<calls, callno, pc, idx, hexagons, node_id_to_positions,
              node_positions, labels, savefig_log, error>>
vars == <<arg, cube, pixel, corners, nodepos,
          calls, callno, pc, idx, hexagons, node_id_to_positions,
          node_positions, labels, savefig_log, error>>

\* an optional value: <<>> for None, <<v>> for the value v
None == <<>>
Some(v) == <<v>>

NodeRefs == {North, NorthEast, SouthEast, South, SouthWest, NorthWest}

(***************************************************************************)
(* The geometry functions applied to inputs from bounded sets.             *)
(***************************************************************************)
MaxCoord == 2

\* sizes and centers as the decimal literals num/den a caller writes;
\* no literal center: the corner functions get the pixel computed
SizeLits == {<<1, 2>>, <<3, 5>>, <<1, 1>>}
CenterLits == {<<<<0, 1>>, <<0, 1>>>>, <<<<-3, 4>>, <<13, 10>>>>}

MainIdle ==
    /\ calls = <<>> /\ callno = 0 /\ pc = "idle" /\ idx = 0
    /\ hexagons = <<>> /\ node_id_to_positions = <<>>
    /\ node_positions = <<>> /\ labels = <<>>
    /\ savefig_log = <<>> /\ error = "None"

InitGeom ==
    /\ arg \in [x : -MaxCoord..MaxCoord, y : -MaxCoord..MaxCoord,
                z : -MaxCoord..MaxCoord, size : SizeLits,
                center : {None} \cup {Some(c) : c \in CenterLits}]
    /\ cube = None /\ pixel = None /\ corners = None /\ nodepos = None
    /\ MainIdle

Construct ==
    /\ cube = None
    /\ cube' = Some(CubeCoord(arg.x, arg.y, arg.z))
    /\ UNCHANGED <<arg, pixel, corners, nodepos, mainVars>>

CubeToPixel ==
    /\ cube # None /\ cube[1].ok /\ pixel = None
    /\ pixel' = Some(cube_to_pixel(Binary64, cube[1].value, Literal(Binary64, arg.size)))
    /\ UNCHANGED <<arg, cube, corners, nodepos, mainVars>>

HasCenter == arg.center = None => pixel # None

Center ==
    IF arg.center = None THEN pixel[1]
    ELSE <<Literal(Binary64, arg.center[1][1]), Literal(Binary64, arg.center[1][2])>>

HexagonCorners ==
    /\ HasCenter /\ corners = None
    /\ corners' = Some(hexagon_corners(Binary64, Center[1], Center[2],
                                     Literal(Binary64, arg.size)))
    /\ UNCHANGED <<arg, cube, pixel, nodepos, mainVars>>

GetNodePosition ==
    /\ HasCenter /\ corners # None /\ nodepos = None
    /\ \E ref \in NodeRefs :
         nodepos' = Some([ref |-> ref,
                          pos |-> get_node_position(Binary64, Center[1], Center[2],
                                                    Literal(Binary64, arg.size), ref)])
    /\ UNCHANGED <<arg, cube, pixel, corners, mainVars>>

NextGeom == Construct \/ CubeToPixel \/ HexagonCorners \/ GetNodePosition

SpecGeom == InitGeom /\ [][NextGeom]_vars

(***************************************************************************)
(* Claims about the geometry functions (SpecGeom).                         *)
(***************************************************************************)
\* the center and size of the application in progress, in arithmetic A
SizeIn(A) == Literal(A, arg.size)

CenterIn(A) ==
    IF arg.center = None
    THEN cube_to_pixel(A, cube[1].value, SizeIn(A))
    ELSE <<Literal(A, arg.center[1][1]), Literal(A, arg.center[1][2])>>

\* C1: constructing CubeCoord(x, y, z) succeeds exactly when x + y + z = 0;
\* with a nonzero sum an error is raised and no coordinate value is produced,
\* and every coordinate value produced sums to zero.
C1_ConstructionIffZeroSum ==
    cube # None =>
        LET r == cube[1]
        IN  /\ r.ok <=> (arg.x + arg.y + arg.z = 0)
            /\ r.ok => /\ r.value = [x |-> arg.x, y |-> arg.y, z |-> arg.z]
                       /\ r.value.x + r.value.y + r.value.z = 0
            /\ ~r.ok => /\ "value" \notin DOMAIN r
                        /\ r.raised = "AssertionError"

C1_Witness ==
    /\ cube # None /\ ~cube[1].ok
    /\ arg.x + arg.y + arg.z # 0

\* C2: in exact arithmetic cube_to_pixel returns
\* x = size * (sqrt(3) * cx + (sqrt(3) / 2) * cz), that is
\* size * (2 cx + cz) / 2 times sqrt(3), and y = size * 1.5 * cz, whatever cy
\* is; (0, 0, 0) maps to (0, 0) and (1, -1, 0) with size 1 to (sqrt(3), 0).
\* (Stated of the states before get_node_position is applied: it leaves the
\* arguments and the pixel as they are.)
C2_CubeToPixelClosedForm ==
    (pixel # None /\ nodepos = None) =>
        LET c   == cube[1].value
            num == arg.size[1]
            den == arg.size[2]
            got == cube_to_pixel(Exact, c, SizeIn(Exact))
        IN  /\ got[1] = R(0, num * (2 * c.x + c.z), 2 * den)
            /\ got[2] = R(3 * num * c.z, 0, 2 * den)
            /\ \A y \in -MaxCoord..MaxCoord :
                 cube_to_pixel(Exact, [c EXCEPT !.y = y], SizeIn(Exact)) = got
            /\ (c.x = 0 /\ c.z = 0) => got = <<R(0, 0, 1), R(0, 0, 1)>>
            /\ (c = [x |-> 1, y |-> -1, z |-> 0] /\ arg.size = <<1, 1>>)
                 => got = <<R(0, 1, 1), R(0, 0, 1)>>

C2_Witness ==
    /\ pixel # None
    /\ cube[1].value = [x |-> 1, y |-> -1, z |-> 0]
    /\ arg.size = <<1, 1>>

\* the angle the claim gives corner k (k = 0..5), in units of pi/6
ClaimAngle(k) == -3 + 2 * k

\* the same angle as the source writes it, within (-pi, pi]
SourceAngle(k) == ((ClaimAngle(k) + 5) % 12) - 5

RSign(a) == IF a.p # 0 THEN (IF a.p > 0 THEN 1 ELSE -1)
            ELSE IF a.q > 0 THEN 1 ELSE IF a.q < 0 THEN -1 ELSE 0

DSq(a) == DMul(a, a)

\* the dyadic point p lies at the angle of units t, as seen from the point c:
\* p - c is a positive multiple of (cos, sin)
AtAngle(p, c, t) ==
    LET dx   == DSub(p[1], c[1])
        dy   == DSub(p[2], c[2])
        cos  == np_cos(Exact, t)
        sin  == np_sin(Exact, t)
        cos2 == RMul(cos, cos)
        sin2 == RMul(sin, sin)
    IN  /\ dx.s = RSign(cos) /\ dy.s = RSign(sin)
        /\ DCmp(DMul(DSq(dx), DFromInt(sin2.p * cos2.d)),
                DMul(DSq(dy), DFromInt(cos2.p * sin2.d))) = 0

DistSq(p, c) == DAdd(DSq(DSub(p[1], c[1])), DSq(DSub(p[2], c[2])))

\* C3 as stated, of the binary64 points hexagon_corners returns: 6 points,
\* point k at angle -pi/2 + k * pi/3 and at distance exactly size.
C3_Original ==
    corners # None =>
        /\ Len(corners[1]) = 6
        /\ \A k \in 0..5 :
             /\ AtAngle(corners[1][k + 1], Center, ClaimAngle(k))
             /\ DCmp(DistSq(corners[1][k + 1], Center), DSq(SizeIn(Binary64))) = 0

GeomTol == D(1, <<1>>, -45)

\* C3, amended: hexagon_corners returns exactly 6 points in the order North,
\* NorthEast, SouthEast, South, SouthWest, NorthWest; in exact arithmetic
\* point k is center + size * (cos, sin)(-pi/2 + k * pi/3), at distance
\* exactly size; the binary64 point returned is
\* center + size * (cos, sin) of that angle with every operation rounded, and
\* its squared distance from the center is within 2^-45 of size^2.
\* (Stated of the states before get_node_position is applied: it leaves the
\* arguments and the corners as they are.)
C3_CornersExactArithmetic ==
    (corners # None /\ nodepos = None) =>
        LET c    == CenterIn(Exact)
            size == SizeIn(Exact)
            ex   == hexagon_corners(Exact, c[1], c[2], size)
            fsz  == SizeIn(Binary64)
        IN  /\ Len(corners[1]) = 6 /\ Len(ex) = 6
            /\ node_order = <<North, NorthEast, SouthEast, South, SouthWest, NorthWest>>
            /\ \A k \in 0..5 :
                 LET dx == RAdd(ex[k + 1][1], RNeg(c[1]))
                     dy == RAdd(ex[k + 1][2], RNeg(c[2]))
                 IN  /\ dx = RMul(size, np_cos(Exact, ClaimAngle(k)))
                     /\ dy = RMul(size, np_sin(Exact, ClaimAngle(k)))
                     /\ RAdd(RMul(dx, dx), RMul(dy, dy)) = RMul(size, size)
                     /\ corners[1][k + 1] =
                          <<FAdd(Center[1], FMul(fsz, np_cos(Binary64, SourceAngle(k)))),
                            FAdd(Center[2], FMul(fsz, np_sin(Binary64, SourceAngle(k))))>>
                     /\ DCmp(DAbs(DSub(DistSq(corners[1][k + 1], Center), DSq(fsz))),
                             GeomTol) <= 0

C3_Witness ==
    /\ corners # None
    /\ \E k \in 0..5 :
         DCmp(DistSq(corners[1][k + 1], Center), DSq(SizeIn(Binary64))) # 0

\* the order of the directions the claim names
ClaimOrder == <<North, NorthEast, SouthEast, South, SouthWest, NorthWest>>

ClaimIndex(ref) == CHOOSE k \in 1..6 : ClaimOrder[k] = ref

\* C4: get_node_position(center, size, d) is the element of
\* hexagon_corners(center, size) at the index of d in the order North,
\* NorthEast, SouthEast, South, SouthWest, NorthWest: the corner at the
\* angle the angle table gives d.
C4_NodePositionIsCorner ==
    nodepos # None =>
        LET ref == nodepos[1].ref
            fsz == SizeIn(Binary64)
        IN  /\ nodepos[1].pos = corners[1][ClaimIndex(ref)]
            /\ nodepos[1].pos =
                 hexagon_corners(Binary64, Center[1], Center[2], fsz)[ClaimIndex(ref)]
            /\ nodepos[1].pos =
                 <<FAdd(Center[1], FMul(fsz, np_cos(Binary64, node_angles[ref]))),
                   FAdd(Center[2], FMul(fsz, np_sin(Binary64, node_angles[ref])))>>

C4_Witness ==
    /\ nodepos # None /\ nodepos[1].ref = SouthWest
    /\ nodepos[1].pos = corners[1][5]

(***************************************************************************)
(* The built-in tables.  A dict is a function; Dict builds it from the     *)
(* (coordinate, direction, node id) entries of the literal.                *)
(***************************************************************************)
Dict(entries) ==
    [key \in {<<e[1], e[2]>> : e \in entries} |->
        (CHOOSE e \in entries : <<e[1], e[2]>> = key)[3]]

BASE_TOPOLOGY ==
    << <<<<0, 0, 0>>, LAND>>,
       <<<<1, -1, 0>>, LAND>>,
       <<<<0, -1, 1>>, LAND>>,
       <<<<-1, 0, 1>>, LAND>>,
       <<<<-1, 1, 0>>, LAND>>,
       <<<<0, 1, -1>>, LAND>>,
       <<<<1, 0, -1>>, LAND>>,
       <<<<2, -2, 0>>, LAND>>,
       <<<<1, -2, 1>>, LAND>>,
       <<<<0, -2, 2>>, LAND>>,
       <<<<-1, -1, 2>>, LAND>>,
       <<<<-2, 0, 2>>, LAND>>,
       <<<<-2, 1, 1>>, LAND>>,
       <<<<-2, 2, 0>>, LAND>>,
       <<<<-1, 2, -1>>, LAND>>,
       <<<<0, 2, -2>>, LAND>>,
       <<<<1, 1, -2>>, LAND>>,
       <<<<2, 0, -2>>, LAND>>,
       <<<<2, -1, -1>>, LAND>>,
       <<<<3, -3, 0>>, PORT>>,
       <<<<2, -3, 1>>, WATER>>,
       <<<<1, -3, 2>>, PORT>>,
       <<<<0, -3, 3>>, WATER>>,
       <<<<-1, -2, 3>>, PORT>>,
       <<<<-2, -1, 3>>, WATER>>,
       <<<<-3, 0, 3>>, PORT>>,
       <<<<-3, 1, 2>>, WATER>>,
       <<<<-3, 2, 1>>, PORT>>,
       <<<<-3, 3, 0>>, WATER>>,
       <<<<-2, 3, -1>>, PORT>>,
       <<<<-1, 3, -2>>, WATER>>,
       <<<<0, 3, -3>>, PORT>>,
       <<<<1, 2, -3>>, WATER>>,
       <<<<2, 1, -3>>, PORT>>,
       <<<<3, 0, -3>>, WATER>>,
       <<<<3, -1, -2>>, PORT>>,
       <<<<3, -2, -1>>, WATER>> >>

MINI_TOPOLOGY ==
    << <<<<0, 0, 0>>, LAND>>,
       <<<<1, -1, 0>>, LAND>>,
       <<<<0, -1, 1>>, LAND>>,
       <<<<-1, 0, 1>>, LAND>>,
       <<<<-1, 1, 0>>, LAND>>,
       <<<<0, 1, -1>>, LAND>>,
       <<<<1, 0, -1>>, LAND>>,
       <<<<2, -2, 0>>, WATER>>,
       <<<<1, -2, 1>>, WATER>>,
       <<<<0, -2, 2>>, WATER>>,
       <<<<-1, -1, 2>>, WATER>>,
       <<<<-2, 0, 2>>, WATER>>,
       <<<<-2, 1, 1>>, WATER>>,
       <<<<-2, 2, 0>>, WATER>>,
       <<<<-1, 2, -1>>, WATER>>,
       <<<<0, 2, -2>>, WATER>>,
       <<<<1, 1, -2>>, WATER>>,
       <<<<2, 0, -2>>, WATER>>,
       <<<<2, -1, -1>>, WATER>> >>

MINI_NODE_IDS ==
    Dict({ <<<<-2, 0, 2>>, North, 14>>,
           <<<<-2, 0, 2>>, NorthEast, 13>>,
           <<<<-2, 0, 2>>, NorthWest, 37>>,
           <<<<-2, 0, 2>>, South, 35>>,
           <<<<-2, 0, 2>>, SouthEast, 34>>,
           <<<<-2, 0, 2>>, SouthWest, 36>>,
           <<<<-2, 1, 1>>, North, 17>>,
           <<<<-2, 1, 1>>, NorthEast, 15>>,
           <<<<-2, 1, 1>>, NorthWest, 39>>,
           <<<<-2, 1, 1>>, South, 37>>,
           <<<<-2, 1, 1>>, SouthEast, 14>>,
           <<<<-2, 1, 1>>, SouthWest, 38>>,
           <<<<-2, 2, 0>>, North, 40>>,
           <<<<-2, 2, 0>>, NorthEast, 18>>,
           <<<<-2, 2, 0>>, NorthWest, 42>>,
           <<<<-2, 2, 0>>, South, 39>>,
           <<<<-2, 2, 0>>, SouthEast, 17>>,
           <<<<-2, 2, 0>>, SouthWest, 41>>,
           <<<<-1, -1, 2>>, North, 12>>,
           <<<<-1, -1, 2>>, NorthEast, 11>>,
           <<<<-1, -1, 2>>, NorthWest, 13>>,
           <<<<-1, -1, 2>>, South, 33>>,
           <<<<-1, -1, 2>>, SouthEast, 32>>,
           <<<<-1, -1, 2>>, SouthWest, 34>>,
           <<<<-1, 0, 1>>, North, 4>>,
           <<<<-1, 0, 1>>, NorthEast, 3>>,
           <<<<-1, 0, 1>>, NorthWest, 15>>,
           <<<<-1, 0, 1>>, South, 13>>,
           <<<<-1, 0, 1>>, SouthEast, 12>>,
           <<<<-1, 0, 1>>, SouthWest, 14>>,
           <<<<-1, 1, 0>>, North, 16>>,
           <<<<-1, 1, 0>>, NorthEast, 5>>,
           <<<<-1, 1, 0>>, NorthWest, 18>>,
           <<<<-1, 1, 0>>, South, 15>>,
           <<<<-1, 1, 0>>, SouthEast, 4>>,
           <<<<-1, 1, 0>>, SouthWest, 17>>,
           <<<<-1, 2, -1>>, North, 43>>,
           <<<<-1, 2, -1>>, NorthEast, 21>>,
           <<<<-1, 2, -1>>, NorthWest, 44>>,
           <<<<-1, 2, -1>>, South, 18>>,
           <<<<-1, 2, -1>>, SouthEast, 16>>,
           <<<<-1, 2, -1>>, SouthWest, 40>>,
           <<<<0, -2, 2>>, North, 10>>,
           <<<<0, -2, 2>>, NorthEast, 29>>,
           <<<<0, -2, 2>>, NorthWest, 11>>,
           <<<<0, -2, 2>>, South, 31>>,
           <<<<0, -2, 2>>, SouthEast, 30>>,
           <<<<0, -2, 2>>, SouthWest, 32>>,
           <<<<0, -1, 1>>, North, 2>>,
           <<<<0, -1, 1>>, NorthEast, 9>>,
           <<<<0, -1, 1>>, NorthWest, 3>>,
           <<<<0, -1, 1>>, South, 11>>,
           <<<<0, -1, 1>>, SouthEast, 10>>,
           <<<<0, -1, 1>>, SouthWest, 12>>,
           <<<<0, 0, 0>>, North, 0>>,
           <<<<0, 0, 0>>, NorthEast, 1>>,
           <<<<0, 0, 0>>, NorthWest, 5>>,
           <<<<0, 0, 0>>, South, 3>>,
           <<<<0, 0, 0>>, SouthEast, 2>>,
           <<<<0, 0, 0>>, SouthWest, 4>>,
           <<<<0, 1, -1>>, North, 19>>,
           <<<<0, 1, -1>>, NorthEast, 20>>,
           <<<<0, 1, -1>>, NorthWest, 21>>,
           <<<<0, 1, -1>>, South, 5>>,
           <<<<0, 1, -1>>, SouthEast, 0>>,
           <<<<0, 1, -1>>, SouthWest, 16>>,
           <<<<0, 2, -2>>, North, 45>>,
           <<<<0, 2, -2>>, NorthEast, 46>>,
           <<<<0, 2, -2>>, NorthWest, 47>>,
           <<<<0, 2, -2>>, South, 21>>,
           <<<<0, 2, -2>>, SouthEast, 19>>,
           <<<<0, 2, -2>>, SouthWest, 43>>,
           <<<<1, -2, 1>>, North, 8>>,
           <<<<1, -2, 1>>, NorthEast, 27>>,
           <<<<1, -2, 1>>, NorthWest, 9>>,
           <<<<1, -2, 1>>, South, 29>>,
           <<<<1, -2, 1>>, SouthEast, 28>>,
           <<<<1, -2, 1>>, SouthWest, 10>>,
           <<<<1, -1, 0>>, North, 6>>,
           <<<<1, -1, 0>>, NorthEast, 7>>,
           <<<<1, -1, 0>>, NorthWest, 1>>,
           <<<<1, -1, 0>>, South, 9>>,
           <<<<1, -1, 0>>, SouthEast, 8>>,
           <<<<1, -1, 0>>, SouthWest, 2>>,
           <<<<1, 0, -1>>, North, 22>>,
           <<<<1, 0, -1>>, NorthEast, 23>>,
           <<<<1, 0, -1>>, NorthWest, 20>>,
           <<<<1, 0, -1>>, South, 1>>,
           <<<<1, 0, -1>>, SouthEast, 6>>,
           <<<<1, 0, -1>>, SouthWest, 0>>,
           <<<<1, 1, -2>>, North, 48>>,
           <<<<1, 1, -2>>, NorthEast, 49>>,
           <<<<1, 1, -2>>, NorthWest, 46>>,
           <<<<1, 1, -2>>, South, 20>>,
           <<<<1, 1, -2>>, SouthEast, 22>>,
           <<<<1, 1, -2>>, SouthWest, 19>>,
           <<<<2, -2, 0>>, North, 24>>,
           <<<<2, -2, 0>>, NorthEast, 25>>,
           <<<<2, -2, 0>>, NorthWest, 7>>,
           <<<<2, -2, 0>>, South, 27>>,
           <<<<2, -2, 0>>, SouthEast, 26>>,
           <<<<2, -2, 0>>, SouthWest, 8>>,
           <<<<2, -1, -1>>, North, 52>>,
           <<<<2, -1, -1>>, NorthEast, 53>>,
           <<<<2, -1, -1>>, NorthWest, 23>>,
           <<<<2, -1, -1>>, South, 7>>,
           <<<<2, -1, -1>>, SouthEast, 24>>,
           <<<<2, -1, -1>>, SouthWest, 6>>,
           <<<<2, 0, -2>>, North, 50>>,
           <<<<2, 0, -2>>, NorthEast, 51>>,
           <<<<2, 0, -2>>, NorthWest, 49>>,
           <<<<2, 0, -2>>, South, 23>>,
           <<<<2, 0, -2>>, SouthEast, 52>>,
           <<<<2, 0, -2>>, SouthWest, 22>> })

BASE_NODE_IDS ==
    Dict({ <<<<-3, 0, 3>>, North, 36>>, <<<<-3, 0, 3>>, NorthEast, 35>>, <<<<-3, 0, 3>>, NorthWest, 71>>,
           <<<<-3, 0, 3>>, South, 69>>, <<<<-3, 0, 3>>, SouthEast, 68>>, <<<<-3, 0, 3>>, SouthWest, 70>>,
           <<<<-3, 1, 2>>, North, 38>>, <<<<-3, 1, 2>>, NorthEast, 37>>, <<<<-3, 1, 2>>, NorthWest, 73>>,
           <<<<-3, 1, 2>>, South, 71>>, <<<<-3, 1, 2>>, SouthEast, 36>>, <<<<-3, 1, 2>>, SouthWest, 72>>,
           <<<<-3, 2, 1>>, North, 41>>, <<<<-3, 2, 1>>, NorthEast, 39>>, <<<<-3, 2, 1>>, NorthWest, 75>>,
           <<<<-3, 2, 1>>, South, 73>>, <<<<-3, 2, 1>>, SouthEast, 38>>, <<<<-3, 2, 1>>, SouthWest, 74>>,
           <<<<-3, 3, 0>>, North, 76>>, <<<<-3, 3, 0>>, NorthEast, 42>>, <<<<-3, 3, 0>>, NorthWest, 78>>,
           <<<<-3, 3, 0>>, South, 75>>, <<<<-3, 3, 0>>, SouthEast, 41>>, <<<<-3, 3, 0>>, SouthWest, 77>>,
           <<<<-2, -1, 3>>, North, 34>>, <<<<-2, -1, 3>>, NorthEast, 33>>, <<<<-2, -1, 3>>, NorthWest, 35>>,
           <<<<-2, -1, 3>>, South, 67>>, <<<<-2, -1, 3>>, SouthEast, 66>>, <<<<-2, -1, 3>>, SouthWest, 68>>,
           <<<<-2, 0, 2>>, North, 14>>, <<<<-2, 0, 2>>, NorthEast, 13>>, <<<<-2, 0, 2>>, NorthWest, 37>>,
           <<<<-2, 0, 2>>, South, 35>>, <<<<-2, 0, 2>>, SouthEast, 34>>, <<<<-2, 0, 2>>, SouthWest, 36>>,
           <<<<-2, 1, 1>>, North, 17>>, <<<<-2, 1, 1>>, NorthEast, 15>>, <<<<-2, 1, 1>>, NorthWest, 39>>,
           <<<<-2, 1, 1>>, South, 37>>, <<<<-2, 1, 1>>, SouthEast, 14>>, <<<<-2, 1, 1>>, SouthWest, 38>>,
           <<<<-2, 2, 0>>, North, 40>>, <<<<-2, 2, 0>>, NorthEast, 18>>, <<<<-2, 2, 0>>, NorthWest, 42>>,
           <<<<-2, 2, 0>>, South, 39>>, <<<<-2, 2, 0>>, SouthEast, 17>>, <<<<-2, 2, 0>>, SouthWest, 41>>,
           <<<<-2, 3, -1>>, North, 79>>, <<<<-2, 3, -1>>, NorthEast, 44>>, <<<<-2, 3, -1>>, NorthWest, 80>>,
           <<<<-2, 3, -1>>, South, 42>>, <<<<-2, 3, -1>>, SouthEast, 40>>, <<<<-2, 3, -1>>, SouthWest, 76>>,
           <<<<-1, -2, 3>>, North, 32>>, <<<<-1, -2, 3>>, NorthEast, 31>>, <<<<-1, -2, 3>>, NorthWest, 33>>,
           <<<<-1, -2, 3>>, South, 65>>, <<<<-1, -2, 3>>, SouthEast, 64>>, <<<<-1, -2, 3>>, SouthWest, 66>>,
           <<<<-1, -1, 2>>, North, 12>>, <<<<-1, -1, 2>>, NorthEast, 11>>, <<<<-1, -1, 2>>, NorthWest, 13>>,
           <<<<-1, -1, 2>>, South, 33>>, <<<<-1, -1, 2>>, SouthEast, 32>>, <<<<-1, -1, 2>>, SouthWest, 34>>,
           <<<<-1, 0, 1>>, North, 4>>, <<<<-1, 0, 1>>, NorthEast, 3>>, <<<<-1, 0, 1>>, NorthWest, 15>>,
           <<<<-1, 0, 1>>, South, 13>>, <<<<-1, 0, 1>>, SouthEast, 12>>, <<<<-1, 0, 1>>, SouthWest, 14>>,
           <<<<-1, 1, 0>>, North, 16>>, <<<<-1, 1, 0>>, NorthEast, 5>>, <<<<-1, 1, 0>>, NorthWest, 18>>,
           <<<<-1, 1, 0>>, South, 15>>, <<<<-1, 1, 0>>, SouthEast, 4>>, <<<<-1, 1, 0>>, SouthWest, 17>>,
           <<<<-1, 2, -1>>, North, 43>>, <<<<-1, 2, -1>>, NorthEast, 21>>, <<<<-1, 2, -1>>, NorthWest, 44>>,
           <<<<-1, 2, -1>>, South, 18>>, <<<<-1, 2, -1>>, SouthEast, 16>>, <<<<-1, 2, -1>>, SouthWest, 40>>,
           <<<<-1, 3, -2>>, North, 81>>, <<<<-1, 3, -2>>, NorthEast, 47>>, <<<<-1, 3, -2>>, NorthWest, 82>>,
           <<<<-1, 3, -2>>, South, 44>>, <<<<-1, 3, -2>>, SouthEast, 43>>, <<<<-1, 3, -2>>, SouthWest, 79>>,
           <<<<0, -3, 3>>, North, 30>>, <<<<0, -3, 3>>, NorthEast, 61>>, <<<<0, -3, 3>>, NorthWest, 31>>,
           <<<<0, -3, 3>>, South, 63>>, <<<<0, -3, 3>>, SouthEast, 62>>, <<<<0, -3, 3>>, SouthWest, 64>>,
           <<<<0, -2, 2>>, North, 10>>, <<<<0, -2, 2>>, NorthEast, 29>>, <<<<0, -2, 2>>, NorthWest, 11>>,
           <<<<0, -2, 2>>, South, 31>>, <<<<0, -2, 2>>, SouthEast, 30>>, <<<<0, -2, 2>>, SouthWest, 32>>,
           <<<<0, -1, 1>>, North, 2>>, <<<<0, -1, 1>>, NorthEast, 9>>, <<<<0, -1, 1>>, NorthWest, 3>>,
           <<<<0, -1, 1>>, South, 11>>, <<<<0, -1, 1>>, SouthEast, 10>>, <<<<0, -1, 1>>, SouthWest, 12>>,
           <<<<0, 0, 0>>, North, 0>>, <<<<0, 0, 0>>, NorthEast, 1>>, <<<<0, 0, 0>>, NorthWest, 5>>,
           <<<<0, 0, 0>>, South, 3>>, <<<<0, 0, 0>>, SouthEast, 2>>, <<<<0, 0, 0>>, SouthWest, 4>>,
           <<<<0, 1, -1>>, North, 19>>, <<<<0, 1, -1>>, NorthEast, 20>>, <<<<0, 1, -1>>, NorthWest, 21>>,
           <<<<0, 1, -1>>, South, 5>>, <<<<0, 1, -1>>, SouthEast, 0>>, <<<<0, 1, -1>>, SouthWest, 16>>,
           <<<<0, 2, -2>>, North, 45>>, <<<<0, 2, -2>>, NorthEast, 46>>, <<<<0, 2, -2>>, NorthWest, 47>>,
           <<<<0, 2, -2>>, South, 21>>, <<<<0, 2, -2>>, SouthEast, 19>>, <<<<0, 2, -2>>, SouthWest, 43>>,
           <<<<0, 3, -3>>, North, 83>>, <<<<0, 3, -3>>, NorthEast, 84>>, <<<<0, 3, -3>>, NorthWest, 85>>,
           <<<<0, 3, -3>>, South, 47>>, <<<<0, 3, -3>>, SouthEast, 45>>, <<<<0, 3, -3>>, SouthWest, 81>>,
           <<<<1, -3, 2>>, North, 28>>, <<<<1, -3, 2>>, NorthEast, 59>>, <<<<1, -3, 2>>, NorthWest, 29>>,
           <<<<1, -3, 2>>, South, 61>>, <<<<1, -3, 2>>, SouthEast, 60>>, <<<<1, -3, 2>>, SouthWest, 30>>,
           <<<<1, -2, 1>>, North, 8>>, <<<<1, -2, 1>>, NorthEast, 27>>, <<<<1, -2, 1>>, NorthWest, 9>>,
           <<<<1, -2, 1>>, South, 29>>, <<<<1, -2, 1>>, SouthEast, 28>>, <<<<1, -2, 1>>, SouthWest, 10>>,
           <<<<1, -1, 0>>, North, 6>>, <<<<1, -1, 0>>, NorthEast, 7>>, <<<<1, -1, 0>>, NorthWest, 1>>,
           <<<<1, -1, 0>>, South, 9>>, <<<<1, -1, 0>>, SouthEast, 8>>, <<<<1, -1, 0>>, SouthWest, 2>>,
           <<<<1, 0, -1>>, North, 22>>, <<<<1, 0, -1>>, NorthEast, 23>>, <<<<1, 0, -1>>, NorthWest, 20>>,
           <<<<1, 0, -1>>, South, 1>>, <<<<1, 0, -1>>, SouthEast, 6>>, <<<<1, 0, -1>>, SouthWest, 0>>,
           <<<<1, 1, -2>>, North, 48>>, <<<<1, 1, -2>>, NorthEast, 49>>, <<<<1, 1, -2>>, NorthWest, 46>>,
           <<<<1, 1, -2>>, South, 20>>, <<<<1, 1, -2>>, SouthEast, 22>>, <<<<1, 1, -2>>, SouthWest, 19>>,
           <<<<1, 2, -3>>, North, 86>>, <<<<1, 2, -3>>, NorthEast, 87>>, <<<<1, 2, -3>>, NorthWest, 84>>,
           <<<<1, 2, -3>>, South, 46>>, <<<<1, 2, -3>>, SouthEast, 48>>, <<<<1, 2, -3>>, SouthWest, 45>>,
           <<<<2, -3, 1>>, North, 26>>, <<<<2, -3, 1>>, NorthEast, 57>>, <<<<2, -3, 1>>, NorthWest, 27>>,
           <<<<2, -3, 1>>, South, 59>>, <<<<2, -3, 1>>, SouthEast, 58>>, <<<<2, -3, 1>>, SouthWest, 28>>,
           <<<<2, -2, 0>>, North, 24>>, <<<<2, -2, 0>>, NorthEast, 25>>, <<<<2, -2, 0>>, NorthWest, 7>>,
           <<<<2, -2, 0>>, South, 27>>, <<<<2, -2, 0>>, SouthEast, 26>>, <<<<2, -2, 0>>, SouthWest, 8>>,
           <<<<2, -1, -1>>, North, 52>>, <<<<2, -1, -1>>, NorthEast, 53>>, <<<<2, -1, -1>>, NorthWest, 23>>,
           <<<<2, -1, -1>>, South, 7>>, <<<<2, -1, -1>>, SouthEast, 24>>, <<<<2, -1, -1>>, SouthWest, 6>>,
           <<<<2, 0, -2>>, North, 50>>, <<<<2, 0, -2>>, NorthEast, 51>>, <<<<2, 0, -2>>, NorthWest, 49>>,
           <<<<2, 0, -2>>, South, 23>>, <<<<2, 0, -2>>, SouthEast, 52>>, <<<<2, 0, -2>>, SouthWest, 22>>,
           <<<<2, 1, -3>>, North, 88>>, <<<<2, 1, -3>>, NorthEast, 89>>, <<<<2, 1, -3>>, NorthWest, 87>>,
           <<<<2, 1, -3>>, South, 49>>, <<<<2, 1, -3>>, SouthEast, 50>>, <<<<2, 1, -3>>, SouthWest, 48>>,
           <<<<3, -3, 0>>, North, 54>>, <<<<3, -3, 0>>, NorthEast, 55>>, <<<<3, -3, 0>>, NorthWest, 25>>,
           <<<<3, -3, 0>>, South, 57>>, <<<<3, -3, 0>>, SouthEast, 56>>, <<<<3, -3, 0>>, SouthWest, 26>>,
           <<<<3, -2, -1>>, North, 94>>, <<<<3, -2, -1>>, NorthEast, 95>>, <<<<3, -2, -1>>, NorthWest, 53>>,
           <<<<3, -2, -1>>, South, 25>>, <<<<3, -2, -1>>, SouthEast, 54>>, <<<<3, -2, -1>>, SouthWest, 24>>,
           <<<<3, -1, -2>>, North, 92>>, <<<<3, -1, -2>>, NorthEast, 93>>, <<<<3, -1, -2>>, NorthWest, 51>>,
           <<<<3, -1, -2>>, South, 53>>, <<<<3, -1, -2>>, SouthEast, 94>>, <<<<3, -1, -2>>, SouthWest, 52>>,
           <<<<3, 0, -3>>, North, 90>>, <<<<3, 0, -3>>, NorthEast, 91>>, <<<<3, 0, -3>>, NorthWest, 89>>,
           <<<<3, 0, -3>>, South, 51>>, <<<<3, 0, -3>>, SouthEast, 92>>, <<<<3, 0, -3>>, SouthWest, 50>> })

(***************************************************************************)
(* visualize_map                                                           *)
(***************************************************************************)
\* colors.get(tile_type, 'gray')
colors_get(tile_type) ==
    CASE tile_type = LAND  -> "#8B4513"
      [] tile_type = WATER -> "#4169E1"
      [] tile_type = PORT  -> "#FFD700"
      [] OTHER -> "gray"

\* draw_hexagon: ax.add_patch of the polygon; patches are those of the axes
draw_hexagon_noAddPatch(patches, center_x, center_y, size, color) == patches

draw_hexagon(patches, center_x, center_y, size, color) ==
    Append(patches,
           [corners |-> hexagon_corners(Binary64, center_x, center_y, size),
            facecolor |-> color])

\* node_id_to_positions[node_id].append(pos) on a defaultdict(list)
DictAppend_listOfPairs(dict, node_id, pos) ==
    Append(dict, [id |-> node_id, positions |-> <<pos>>])

DictAppend(dict, node_id, pos) ==
    IF \E k \in 1..Len(dict) : dict[k].id = node_id
    THEN [k \in 1..Len(dict) |->
            IF dict[k].id = node_id
            THEN [id |-> node_id, positions |-> Append(dict[k].positions, pos)]
            ELSE dict[k]]
    ELSE Append(dict, [id |-> node_id, positions |-> <<pos>>])

\* `if node_ids:` is false for None and for an empty dict
Truthy(node_ids) == node_ids # None /\ DOMAIN node_ids[1] # {}

\* the directions the collecting loop goes through
collect_order == <<North, NorthEast, SouthEast, South, SouthWest, NorthWest>>

\* `key in node_ids`
KeyPresent_always(node_ids, key) == TRUE

KeyPresent(node_ids, key) == key \in DOMAIN node_ids

\* the collecting loop of one tile, from its k-th direction on: the dict it
\* leaves, or the KeyError of a lookup node_ids[key] of an absent key
RECURSIVE CollectNodes(_, _, _, _, _, _, _)
RECURSIVE CollectNodes_usesCenter(_, _, _, _, _, _, _)
CollectNodes_usesCenter(dict, node_ids, coord_key, px, py, hex_size, k) ==
    IF k > Len(collect_order) THEN [ok |-> TRUE, dict |-> dict]
    ELSE LET key == <<coord_key, collect_order[k]>>
         IN  IF ~KeyPresent(node_ids, key)
             THEN CollectNodes_usesCenter(dict, node_ids, coord_key, px, py, hex_size, k + 1)
             ELSE CollectNodes_usesCenter(DictAppend(dict, node_ids[key], <<px, py>>),
                                          node_ids, coord_key, px, py, hex_size, k + 1)

CollectNodes(dict, node_ids, coord_key, px, py, hex_size, k) ==
    IF k > Len(collect_order) THEN [ok |-> TRUE, dict |-> dict]
    ELSE LET node_ref == collect_order[k]
             key      == <<coord_key, node_ref>>
         IN  IF ~KeyPresent(node_ids, key)
             THEN CollectNodes(dict, node_ids, coord_key, px, py, hex_size, k + 1)
             ELSE IF key \notin DOMAIN node_ids
             THEN [ok |-> FALSE, raised |-> "KeyError"]
             ELSE CollectNodes(
                      DictAppend(dict, node_ids[key],
                                 get_node_position(Binary64, px, py, hex_size,
                                                   node_ref)),
                      node_ids, coord_key, px, py, hex_size, k + 1)

\* sum(...) of floats, starting from the int 0
RECURSIVE FSum(_)
FSum(xs) == IF xs = <<>> THEN DZero ELSE FAdd(FSum(SubSeq(xs, 1, Len(xs) - 1)), xs[Len(xs)])

Xs(positions) == [k \in 1..Len(positions) |-> positions[k][1]]
Ys(positions) == [k \in 1..Len(positions) |-> positions[k][2]]

\* the position kept for a node id
Centroid_firstWins(positions) == positions[1]

Centroid(positions) ==
    IF Len(positions) = 1 THEN positions[1]
    ELSE <<FDivInt(FSum(Xs(positions)), Len(positions)),
           FDivInt(FSum(Ys(positions)), Len(positions))>>

Cur == calls[callno]

\* main calls visualize_map; the figure and the empty dict are created
MainCall_catchesException ==
    /\ pc \in {"main", "raised"} /\ callno < Len(calls)
    /\ callno' = callno + 1
    /\ pc' = "tiles" /\ idx' = 1 /\ error' = "None"
    /\ hexagons' = <<>> /\ node_id_to_positions' = <<>>
    /\ node_positions' = <<>> /\ labels' = <<>>
    /\ UNCHANGED <<calls, savefig_log, geomVars>>

\* the same with node_id_to_positions kept from one call to the next
MainCall_keepsPositions ==
    /\ pc = "main" /\ callno < Len(calls)
    /\ callno' = callno + 1
    /\ pc' = "tiles" /\ idx' = 1
    /\ hexagons' = <<>> /\ node_positions' = <<>> /\ labels' = <<>>
    /\ UNCHANGED <<calls, node_id_to_positions, savefig_log, error, geomVars>>

MainCall ==
    /\ pc = "main" /\ callno < Len(calls)
    /\ callno' = callno + 1
    /\ pc' = "tiles" /\ idx' = 1
    /\ hexagons' = <<>> /\ node_id_to_positions' = <<>>
    /\ node_positions' = <<>> /\ labels' = <<>>
    /\ UNCHANGED <<calls, savefig_log, error, geomVars>>

\* one iteration of `for (x, y, z), tile_type in topology`
VM_Tile ==
    /\ pc = "tiles" /\ idx <= Len(Cur.topology)
    /\ LET c         == Cur.topology[idx][1]
           tile_type == Cur.topology[idx][2]
           made      == CubeCoord(c[1], c[2], c[3])
           hex_size  == Literal(Binary64, Cur.hex_size)
       IN  IF ~made.ok
           THEN /\ pc' = "raised" /\ error' = made.raised
                /\ UNCHANGED <<idx, hexagons, node_id_to_positions>>
           ELSE LET p     == cube_to_pixel(Binary64, made.value, hex_size)
                    drawn == draw_hexagon(hexagons, p[1], p[2], hex_size,
                                          colors_get(tile_type))
                    nodes == IF Truthy(Cur.node_ids)
                             THEN CollectNodes(node_id_to_positions,
                                               Cur.node_ids[1], c, p[1], p[2],
                                               hex_size, 1)
                             ELSE [ok |-> TRUE, dict |-> node_id_to_positions]
                IN  /\ hexagons' = drawn
                    /\ IF nodes.ok
                       THEN /\ node_id_to_positions' = nodes.dict
                            /\ idx' = idx + 1
                            /\ UNCHANGED <<pc, error>>
                       ELSE /\ pc' = "raised" /\ error' = nodes.raised
                            /\ UNCHANGED <<idx, node_id_to_positions>>
    /\ UNCHANGED <<calls, callno, node_positions, labels, savefig_log, geomVars>>

\* the tile loop ends; node_positions = {}
VM_TilesDone ==
    /\ pc = "tiles" /\ idx > Len(Cur.topology)
    /\ pc' = "collapse" /\ idx' = 1 /\ node_positions' = <<>>
    /\ UNCHANGED <<calls, callno, hexagons, node_id_to_positions, labels,
                   savefig_log, error, geomVars>>

\* one iteration of `for node_id, positions in node_id_to_positions.items()`
VM_Collapse ==
    /\ pc = "collapse" /\ idx <= Len(node_id_to_positions)
    /\ node_positions' =
         Append(node_positions,
                [id  |-> node_id_to_positions[idx].id,
                 pos |-> Centroid(node_id_to_positions[idx].positions)])
    /\ idx' = idx + 1
    /\ UNCHANGED <<calls, callno, pc, hexagons, node_id_to_positions, labels,
                   savefig_log, error, geomVars>>

VM_CollapseDone ==
    /\ pc = "collapse" /\ idx > Len(node_id_to_positions)
    /\ pc' = "labels" /\ idx' = 1
    /\ UNCHANGED <<calls, callno, figVars, savefig_log, error, geomVars>>

\* one iteration of `for node_id, (node_x, node_y) in node_positions.items()`:
\* the circle and the text str(node_id), both at (node_x, node_y)
VM_DrawLabel ==
    /\ pc = "labels" /\ idx <= Len(node_positions)
    /\ labels' = Append(labels, [text |-> node_positions[idx].id,
                                 pos  |-> node_positions[idx].pos])
    /\ idx' = idx + 1
    /\ UNCHANGED <<calls, callno, pc, hexagons, node_id_to_positions,
                   node_positions, savefig_log, error, geomVars>>

\* limits, title, legend and statistics change nothing that is modelled;
\* plt.savefig writes the file or raises, and visualize_map returns to main
VM_Finish ==
    /\ pc = "labels" /\ idx > Len(node_positions)
    /\ \E ok \in BOOLEAN :
         /\ savefig_log' = Append(savefig_log,
                                  [filename |-> Cur.filename, ok |-> ok,
                                   hexagons |-> hexagons, labels |-> labels])
         /\ IF ok THEN pc' = "main" /\ error' = error
                  ELSE pc' = "raised" /\ error' = "OSError"
    /\ UNCHANGED <<calls, callno, idx, figVars, geomVars>>

\* main prints "Done!" and returns
MainDone ==
    /\ pc = "main" /\ callno = Len(calls)
    /\ pc' = "done"
    /\ UNCHANGED <<calls, callno, idx, figVars, savefig_log, error, geomVars>>

NextMain ==
    \/ MainCall \/ VM_Tile \/ VM_TilesDone \/ VM_Collapse \/ VM_CollapseDone
    \/ VM_DrawLabel \/ VM_Finish \/ MainDone

GeomIdle ==
    /\ arg = None /\ cube = None /\ pixel = None
    /\ corners = None /\ nodepos = None

MainStart(cs) ==
    /\ calls = cs /\ callno = 0 /\ pc = "main" /\ idx = 0
    /\ hexagons = <<>> /\ node_id_to_positions = <<>>
    /\ node_positions = <<>> /\ labels = <<>>
    /\ savefig_log = <<>> /\ error = "None"
    /\ GeomIdle

\* the two calls of main
MainCalls ==
    << [topology |-> BASE_TOPOLOGY, filename |-> "catan_base_map.png",
        hex_size |-> <<1, 2>>, node_ids |-> Some(BASE_NODE_IDS)],
       [topology |-> MINI_TOPOLOGY, filename |-> "catan_mini_map.png",
        hex_size |-> <<3, 5>>, node_ids |-> Some(MINI_NODE_IDS)] >>

InitMain == MainStart(MainCalls)

SpecMain == InitMain /\ [][NextMain]_vars

(***************************************************************************)
(* visualize_map called once on a small topology and node-ID table         *)
(* (SpecRender), and main making two calls on small arguments (SpecTwo).   *)
(***************************************************************************)
MaxTiles == 2
MaxEntries == 2

\* two adjacent tiles of the board
RenderTiles == {<<<<0, 0, 0>>, LAND>>, <<<<1, 0, -1>>, WATER>>}

\* the two corners of (0, 0, 0) that are corners of (1, 0, -1) too, from
\* either tile
RenderKeys ==
    {<<<<0, 0, 0>>, North>>, <<<<0, 0, 0>>, NorthEast>>,
     <<<<1, 0, -1>>, SouthWest>>, <<<<1, 0, -1>>, South>>}

RenderIds == {7, 8}

SeqsUpTo(S, n) == UNION {[1..k -> S] : k \in 0..n}

\* no table, or a dict of at most n entries
Tables(keys, ids, n) ==
    {None} \cup
    {Some(t) : t \in UNION {[dom -> ids] :
                    dom \in {d \in SUBSET keys : Cardinality(d) <= n}}}

RenderArgs ==
    [topology : SeqsUpTo(RenderTiles, MaxTiles), filename : {"map.png"},
     hex_size : {<<3, 5>>}, node_ids : Tables(RenderKeys, RenderIds, MaxEntries)]

InitRender == \E a \in RenderArgs : MainStart(<<a>>)

SpecRender == InitRender /\ [][NextMain]_vars

\* the tiles of a first call: also a triple that is no cube coordinate
FirstTiles == RenderTiles \cup {<<<<1, 0, 0>>, PORT>>}

FirstArgs ==
    [topology : SeqsUpTo(FirstTiles, MaxTiles), filename : {"first.png"},
     hex_size : {<<1, 2>>},
     node_ids : {None, Some(Dict({<<<<0, 0, 0>>, North, 7>>,
                                  <<<<1, 0, -1>>, SouthWest, 7>>}))}]

SecondArgs ==
    [topology : {<<<<<<0, 0, 0>>, LAND>>>>, <<<<<<1, 0, 0>>, LAND>>>>},
     filename : {"second.png"}, hex_size : {<<3, 5>>},
     node_ids : {Some(Dict({<<<<0, 0, 0>>, South, 8>>}))}]

InitTwo == \E a \in FirstArgs, b \in SecondArgs : MainStart(<<a, b>>)

SpecTwo == InitTwo /\ [][NextMain]_vars

(***************************************************************************)
(* Claims about one call of visualize_map (SpecRender).                    *)
(***************************************************************************)
\* the tiles the tile loop has gone through
TilesDone == IF pc = "tiles" THEN idx - 1 ELSE Len(Cur.topology)

\* the center and the size visualize_map computes for the t-th tile
HexSize == Literal(Binary64, Cur.hex_size)

TileCenter(t) ==
    LET c == Cur.topology[t][1]
    IN  cube_to_pixel(Binary64, [x |-> c[1], y |-> c[2], z |-> c[3]], HexSize)

\* the exact sum of binary64 values
RECURSIVE DSum(_)
DSum(xs) == IF xs = <<>> THEN DZero ELSE DAdd(xs[1], DSum(Tail(xs)))

\* c is exactly the arithmetic mean of xs
ExactMean(c, xs) == DCmp(DMul(DFromInt(Len(xs)), c), DSum(xs)) = 0

\* c is the arithmetic mean of xs up to the rounding of the binary64 sum
\* and quotient: |c - mean| <= 2^-48
MeanTol == D(1, <<1>>, -48)

NearMean(c, xs) ==
    DCmp(DAbs(DSub(DMul(DFromInt(Len(xs)), c), DSum(xs))),
         DMul(DFromInt(Len(xs)), MeanTol)) <= 0

\* the exact midpoint of a and b, rounded to the nearest binary64 value
RoundedMidpoint(a, b) ==
    LET sum == DAdd(a, b)
    IN  FRound(D(sum.s, sum.m, sum.e - 1), FALSE)

HexagonOf(t) ==
    [corners   |-> hexagon_corners(Binary64, TileCenter(t)[1],
                                   TileCenter(t)[2], HexSize),
     facecolor |-> colors_get(Cur.topology[t][2])]

\* C6: a call without node-ID table draws exactly one hexagon per topology
\* entry, the k-th for the k-th entry, and no node label, and that is the
\* figure it saves; one Land tile at (0,0,0) gives one hexagon and no label.
C6_NoTableNoLabels ==
    (callno >= 1 /\ Cur.node_ids = None) =>
        /\ labels = <<>> /\ node_id_to_positions = <<>> /\ node_positions = <<>>
        /\ Len(hexagons) = TilesDone
        /\ \A k \in 1..Len(hexagons) : hexagons[k] = HexagonOf(k)
        /\ \A k \in 1..Len(savefig_log) :
             /\ savefig_log[k].labels = <<>>
             /\ Len(savefig_log[k].hexagons) = Len(Cur.topology)

\* a call without table on [(0,0,0) Land, (1,0,-1) Water] has saved its figure
C6_Witness ==
    /\ pc = "done" /\ Cur.node_ids = None
    /\ Cur.topology = <<<<<<0, 0, 0>>, LAND>>, <<<<1, 0, -1>>, WATER>>>>
    /\ Len(savefig_log) = 1 /\ savefig_log[1].ok
    /\ Len(savefig_log[1].hexagons) = 2 /\ savefig_log[1].labels = <<>>

\* the call is on the one tile (0,0,0) with the one entry ((0,0,0), North)
OneTileNorth ==
    /\ callno >= 1
    /\ Len(Cur.topology) = 1 /\ Cur.topology[1][1] = <<0, 0, 0>>
    /\ Cur.node_ids # None
    /\ DOMAIN Cur.node_ids[1] = {<<<<0, 0, 0>>, North>>}

\* C7: the one-tile topology (0,0,0) with the single entry
\* ((0,0,0), North) -> id gives exactly one node label; it carries id and is
\* at get_node_position(center of (0,0,0), size, North), the point
\* (size * cos(-pi/2), -size), and that is the label of the saved figure.
C7_OneEntryOneLabel ==
    OneTileNorth =>
        LET id == Cur.node_ids[1][<<<<0, 0, 0>>, North>>]
            at == get_node_position(Binary64, TileCenter(1)[1],
                                    TileCenter(1)[2], HexSize, North)
        IN  /\ Len(labels) <= 1
            /\ at = <<FMul(HexSize, F_cos_pi_2), FNeg(HexSize)>>
            /\ Len(savefig_log) = 1 =>
                 /\ labels = <<[text |-> id, pos |-> at]>>
                 /\ savefig_log[1].labels = labels

C7_Witness ==
    /\ OneTileNorth /\ pc = "done"
    /\ Len(savefig_log) = 1 /\ savefig_log[1].ok
    /\ Len(savefig_log[1].labels) = 1

\* the directions of the t-th tile that the table has an entry for
PresentRefs(t) ==
    {ref \in NodeRefs : <<Cur.topology[t][1], ref>> \in DOMAIN Cur.node_ids[1]}

RECURSIVE PresentPairs(_)
PresentPairs(t) ==
    IF t = 0 THEN 0 ELSE PresentPairs(t - 1) + Cardinality(PresentRefs(t))

RECURSIVE Total(_)
Total(dict) ==
    IF dict = <<>> THEN 0 ELSE Len(dict[1].positions) + Total(Tail(dict))

\* C8: with a node-ID table that lacks (coordinate, direction) pairs, no
\* error is raised for an absent pair: the call raises nothing before it
\* writes the file; every tile gone through has its hexagon, and the position lists hold one
\* position per present pair of those tiles and nothing else: each position
\* of a node ID is the corner of a present pair the table maps to that ID.
\* (The hexagons and positions are compared while the tile loop is at work;
\* the figure saved has those hexagons.)
C8_AbsentPairSkipped ==
    (callno >= 1 /\ Cur.node_ids # None) =>
        /\ error \in {"None", "OSError"}
        /\ pc = "raised" <=> error = "OSError"
        /\ error = "OSError" => Len(savefig_log) = 1
        /\ Len(hexagons) = TilesDone
        /\ \A k \in 1..Len(savefig_log) : savefig_log[k].hexagons = hexagons
        /\ Total(node_id_to_positions) = PresentPairs(TilesDone)
        /\ pc = "tiles" => \A k \in 1..Len(hexagons) : hexagons[k] = HexagonOf(k)
        /\ pc = "tiles" => \A k \in 1..Len(node_id_to_positions) :
             \A j \in 1..Len(node_id_to_positions[k].positions) :
                \E t \in 1..TilesDone : \E ref \in PresentRefs(t) :
                   /\ Cur.node_ids[1][<<Cur.topology[t][1], ref>>]
                        = node_id_to_positions[k].id
                   /\ node_id_to_positions[k].positions[j]
                        = get_node_position(Binary64, TileCenter(t)[1],
                                            TileCenter(t)[2], HexSize, ref)

\* a pass has ended on a tile with no entry at all and a tile with some
C8_Witness ==
    /\ pc = "done" /\ Cur.node_ids # None /\ savefig_log[1].ok
    /\ \E t \in 1..Len(Cur.topology) : PresentRefs(t) = {}
    /\ \E t \in 1..Len(Cur.topology) :
         PresentRefs(t) # {} /\ PresentRefs(t) # NodeRefs
    /\ Len(hexagons) = Len(Cur.topology) /\ labels # <<>>

(***************************************************************************)
(* Claims about main and its two calls (SpecTwo, SpecMain).                *)
(***************************************************************************)
\* C9: an exception, of plt.savefig or of CubeCoord, ends the run at once:
\* after it no step of main or visualize_map is possible, so nothing is
\* retried and no later call is made. Only the last savefig can have failed,
\* no file is written twice, a topology with a bad coordinate gets no
\* savefig at all, and a first call that fails leaves no image of either
\* topology.
C9_FailureAbortsRun ==
    /\ pc = "raised" <=> error # "None"
    /\ error # "None" => ~ENABLED NextMain
    /\ Len(savefig_log) <= callno
    /\ \A k \in 1..Len(savefig_log) :
         /\ savefig_log[k].filename = calls[k].filename
         /\ k < Len(savefig_log) => savefig_log[k].ok
    /\ error = "AssertionError" => Len(savefig_log) = callno - 1
    /\ error = "OSError" =>
         Len(savefig_log) = callno /\ ~savefig_log[callno].ok
    /\ (error # "None" /\ callno = 1) =>
         \A k \in 1..Len(savefig_log) : ~savefig_log[k].ok

\* the write of the first image has failed
C9_Witness ==
    /\ pc = "raised" /\ error = "OSError" /\ callno = 1
    /\ Len(savefig_log) = 1 /\ ~savefig_log[1].ok
    /\ callno < Len(calls)

\* the corner a table entry stands for, in exact arithmetic
ExactCorner(key, hex_size) ==
    LET size == Literal(Exact, hex_size)
        p    == cube_to_pixel(Exact, [x |-> key[1][1], y |-> key[1][2],
                                      z |-> key[1][3]], size)
    IN  get_node_position(Exact, p[1], p[2], size, key[2])

\* two binary64 points no further apart than 2^-48 in x and in y
Close(p, q) ==
    /\ DCmp(DAbs(DSub(p[1], q[1])), MeanTol) <= 0
    /\ DCmp(DAbs(DSub(p[2], q[2])), MeanTol) <= 0

\* C10 as stated, of the positions visualize_map collects for the built-in
\* tables: at most three per node ID, all exactly the same, and the position
\* kept for the ID equal to each of them.
C10_Original ==
    /\ \A k \in 1..Len(node_id_to_positions) :
         LET ps == node_id_to_positions[k].positions
         IN  Len(ps) <= 3 /\ \A j \in 1..Len(ps) : ps[j] = ps[1]
    /\ \A k \in 1..Len(node_positions) :
         LET ps == node_id_to_positions[k].positions
         IN  \A j \in 1..Len(ps) : node_positions[k].pos = ps[j]

\* C10, amended: in both built-in tables every entry is on a tile of the
\* topology, every node ID has at most three entries, all on distinct tiles,
\* and the entries of one node ID stand for the same corner in exact
\* arithmetic. The binary64 positions collected for one ID, one per entry,
\* are within 2^-48 of each other in x and in y, and so is the position kept
\* for the ID of each of them.
C10_SharedCorners ==
    /\ (pc = "collapse" /\ idx = 1) =>
         LET table == Cur.node_ids[1]
             keys  == DOMAIN table
             exact == [key \in keys |-> ExactCorner(key, Cur.hex_size)]
         IN  /\ \A key \in keys :
                  \E t \in 1..Len(Cur.topology) : Cur.topology[t][1] = key[1]
             /\ \A k1, k2 \in keys :
                  (table[k1] = table[k2] /\ k1 # k2) =>
                      k1[1] # k2[1] /\ exact[k1] = exact[k2]
             /\ \A k \in 1..Len(node_id_to_positions) :
                  LET e == node_id_to_positions[k]
                  IN  /\ Len(e.positions) <= 3
                      /\ Len(e.positions)
                           = Cardinality({key \in keys : table[key] = e.id})
                      /\ \A i, j \in 1..Len(e.positions) :
                           Close(e.positions[i], e.positions[j])
    /\ \A k \in 1..Len(node_positions) :
         LET ps == node_id_to_positions[k].positions
         IN  \A j \in 1..Len(ps) : Close(node_positions[k].pos, ps[j])

\* both maps are done, and a node ID of three entries of the mini map has
\* been collapsed from positions that are not all the same
C10_Witness ==
    /\ pc = "done" /\ callno = 2 /\ Len(labels) = Len(node_id_to_positions)
    /\ \E k \in 1..Len(node_positions) :
         LET ps == node_id_to_positions[k].positions
         IN  Len(ps) = 3 /\ (ps[1] # ps[2] \/ ps[2] # ps[3])

(***************************************************************************)
(* Labels per node ID (SpecRender).                                        *)
(***************************************************************************)
\* the coordinates of the tiles of the topology
TopologyCoords == {Cur.topology[t][1] : t \in 1..Len(Cur.topology)}

\* the node IDs the table has under keys whose coordinate is a tile of the
\* topology; none without a table
ReferencedIds ==
    IF Cur.node_ids = None THEN {}
    ELSE {Cur.node_ids[1][key] :
            key \in {k \in DOMAIN Cur.node_ids[1] : k[1] \in TopologyCoords}}

LabelTexts(ls) == {ls[k].text : k \in 1..Len(ls)}

\* C11: visualize_map draws exactly one label per distinct node ID. No two
\* labels carry the same ID at any time, every label carries an ID the table
\* has under a key on a tile of the topology, and once the label loop has
\* ended (the figure is saved) the labelled IDs are exactly those IDs, so the
\* number of labels is their number and an entry on no tile of the topology
\* gives no label.
C11_OneLabelPerNodeId ==
    callno >= 1 =>
        /\ Cardinality(LabelTexts(labels)) = Len(labels)
        /\ LabelTexts(labels) \subseteq ReferencedIds
        /\ \A k \in 1..Len(savefig_log) :
             /\ savefig_log[k].labels = labels
             /\ LabelTexts(labels) = ReferencedIds
             /\ Len(labels) = Cardinality(ReferencedIds)

\* a figure is saved with one label for an ID that two tiles contributed to,
\* from a table that also has an entry on no tile of the topology
C11_Witness ==
    /\ pc = "done" /\ Cur.node_ids # None /\ savefig_log[1].ok
    /\ Len(labels) = 1
    /\ Len(node_id_to_positions[1].positions) = 2
    /\ \E key \in DOMAIN Cur.node_ids[1] : key[1] \notin TopologyCoords

(***************************************************************************)
(* Orientation of the hexagon (SpecGeom).                                  *)
(***************************************************************************)
\* the corners of the hexagon in exact arithmetic, as offsets from its center
ExactOffsets ==
    LET c  == CenterIn(Exact)
        ex == hexagon_corners(Exact, c[1], c[2], SizeIn(Exact))
    IN  [k \in 1..Len(ex) |-> <<RAdd(ex[k][1], RNeg(c[1])),
                                RAdd(ex[k][2], RNeg(c[2]))>>]

\* a <= b, for a and b whose difference is rational or a rational multiple
\* of sqrt(3), as the differences of corner coordinates are
RLeq(a, b) == RSign(RAdd(a, RNeg(b))) <= 0

\* the corners with the greatest and with the least i-th coordinate
RHighest(ps, i) == {k \in 1..Len(ps) : \A j \in 1..Len(ps) : RLeq(ps[j][i], ps[k][i])}
RLowest(ps, i) == {k \in 1..Len(ps) : \A j \in 1..Len(ps) : RLeq(ps[k][i], ps[j][i])}
FHighest(ps, i) == {k \in 1..Len(ps) : \A j \in 1..Len(ps) : DCmp(ps[j][i], ps[k][i]) <= 0}
FLowest(ps, i) == {k \in 1..Len(ps) : \A j \in 1..Len(ps) : DCmp(ps[k][i], ps[j][i]) <= 0}

RECURSIVE Alone(_, _)
Alone(call, n) ==
    IF n = 0 THEN [hexagons |-> <<>>, dict |-> <<>>]
    ELSE LET prev == Alone(call, n - 1)
             c    == call.topology[n][1]
             size == Literal(Binary64, call.hex_size)
             p    == cube_to_pixel(Binary64, [x |-> c[1], y |-> c[2], z |-> c[3]], size)
         IN  [hexagons |-> draw_hexagon(prev.hexagons, p[1], p[2], size,
                                        colors_get(call.topology[n][2])),
              dict     |-> IF Truthy(call.node_ids)
                           THEN CollectNodes(prev.dict, call.node_ids[1], c,
                                             p[1], p[2], size, 1).dict
                           ELSE prev.dict]

\* the labels of a call that collected dict
LabelsOf(dict) ==
    [k \in 1..Len(dict) |-> [text |-> dict[k].id, pos |-> Centroid(dict[k].positions)]]

\* every figure saved is the one its call draws when it runs alone, and the
\* call in progress has drawn and collected what it would have alone
SelfContained ==
    /\ \A k \in 1..Len(savefig_log) :
         LET alone == Alone(calls[k], Len(calls[k].topology))
         IN  /\ savefig_log[k].hexagons = alone.hexagons
             /\ savefig_log[k].labels = LabelsOf(alone.dict)
    /\ pc = "tiles" =>
         /\ idx = 1 => /\ hexagons = <<>> /\ node_id_to_positions = <<>>
                       /\ node_positions = <<>> /\ labels = <<>>
         /\ hexagons = Alone(Cur, idx - 1).hexagons
         /\ node_id_to_positions = Alone(Cur, idx - 1).dict

\* C13: each visualize_map call starts with an empty node-position
\* aggregate and its hexagons and labels are those it draws when it runs
\* alone, whatever call came before it; no step changes the topology or the
\* node-ID table of any call.
C13_CallsSelfContained == [](SelfContained) /\ [][calls' = calls]_vars

\* both calls have saved a figure with labels, the second with none of the
\* first call's node IDs
C13_Witness ==
    /\ pc = "done" /\ callno = 2 /\ Len(savefig_log) = 2
    /\ savefig_log[1].labels # <<>> /\ savefig_log[2].labels # <<>>
    /\ LabelTexts(savefig_log[1].labels) \cap LabelTexts(savefig_log[2].labels) = {}

====
